---- MODULE Spec2Model ----
(***************************************************************************)
(* Model of the Validity VFS0097 libfprint driver (vfs0097.c): the device  *)
(* open/close lifecycle, the initialization state machine, the command     *)
(* executor with its USB transfers, and the handshake scaffold.            *)
(*                                                                         *)
(* Scheduling: libfprint is single threaded and callback driven.  pc names *)
(* the driver function the framework calls next ("idle": control is back   *)
(* in the main loop, which dispatches transfer completions and host        *)
(* requests).  Every call in the driver is a tail call, so a pending call  *)
(* is the whole continuation.                                              *)
(***************************************************************************)
EXTENDS Integers, Sequences, FiniteSets, TLC

\* ------------------------------------------------------------------ bounds

\* Calls of open() the host makes on the device object.
MaxOpens == 2

\* The longest output asked of PRF_SHA256 (two whole digests and some bytes).
MaxPrfLength == 70

\* ------------------------------------------------------- program constants

\* enum INIT_SM states (vfs0097.h), in the order of the case labels of init_ssm.
SEND_INIT_1 == 0
CHECK_INITIALIZED == 1
SEND_INIT_2 == 2
GET_PARTITION_HEADER == 3
SEND_INIT_4 == 4
GET_FLASH_INFO == 5
READ_FLASH_TLS_DATA == 6
INIT_KEYS == 7
HANDSHAKE == 8
INIT_SM_STATES == 9

\* enum EXEC_COMMAND_SM states.
EXEC_COMMAND_SM_WRITE == 0
EXEC_COMMAND_SM_READ == 1
EXEC_COMMAND_SM_STATES == 2

\* enum TLS_HANDSHAKE_SM states.
TLS_HANDSHAKE_SM_CLIENT_HELLO == 0
TLS_HANDSHAKE_SM_GENERATE_CERTIFICATE == 1
TLS_HANDSHAKE_SM_CLIENT_FINISHED == 2
TLS_HANDSHAKE_STATES == 3

\* The six command payloads, named by their index (the bytes are opaque).
INIT_SEQUENCE_MSG1 == 1
INIT_SEQUENCE_MSG2 == 2
INIT_SEQUENCE_MSG3 == 3
INIT_SEQUENCE_MSG4 == 4
INIT_SEQUENCE_MSG5 == 5
INIT_SEQUENCE_MSG6 == 6

\* Capacity of the response buffer (scaled down; it holds the largest flash
\* container of FlashContainers and is at least InitReplyLength).
VFS_USB_BUFFER_SIZE == 448

\* The response length CHECK_INITIALIZED tests for, and the provisioning marker.
InitReplyLength == 38
InitializedMarker == 7

NULL == "NULL"

\* ------------------------------------------------------------------- state

VARIABLES
  self,        \* FpiDeviceVfs0097: seed, buffer, buffer_length, keys
  ms,          \* the state machines: ms.init (init_ssm), ms.sub (its sub-machine)
  transfers,   \* USB transfers submitted and not yet completed
  pc,          \* the driver function the framework calls next
  dev,         \* FpDevice: "closed" | "opening" | "open"
  open_result, \* what the last open completion reported: "none", "ok" or the error
  opens,       \* open() calls so far
  completions, \* open completions reported for the current open() call
  log,         \* transfers submitted and completed during the current open()
  last_read,   \* what the transport reported for the latest read completion
  visited,     \* init_ssm states whose handler ran during the current open()
  parsed,      \* what init_keys did during the current open(), block by block
  prf          \* a call of PRF_SHA256 on its own: its arguments and its output

vars == <<self, ms, transfers, pc, dev, open_result, opens, completions,
          log, last_read, visited, parsed, prf>>

Ctx ==
  [self |-> self, ms |-> ms, transfers |-> transfers, pc |-> pc, dev |-> dev,
   open_result |-> open_result, completions |-> completions, log |-> log,
   parsed |-> parsed, aborted |-> FALSE, hung |-> FALSE]

Commit(c) ==
  /\ self' = c.self
  /\ ms' = c.ms
  /\ transfers' = c.transfers
  /\ pc' = IF c.aborted THEN "aborted" ELSE IF c.hung THEN "init_keys" ELSE c.pc
  /\ dev' = c.dev
  /\ open_result' = c.open_result
  /\ completions' = c.completions
  /\ log' = c.log
  /\ parsed' = c.parsed
  /\ prf' = prf

Zeros(n) == [i \in 1..n |-> 0]

\* ------------------------------------------------- fpi-ssm (the framework)

NoSsm ==
  [handler |-> "none", nr_states |-> 0, cur_state |-> 0, completed |-> FALSE,
   error |-> NULL, parent |-> NULL, data |-> 0]

fpi_ssm_new(handler, nr_states, data) ==
  [handler |-> handler, nr_states |-> nr_states, cur_state |-> 0,
   completed |-> FALSE, error |-> NULL, parent |-> NULL, data |-> data]

\* A machine that was started and has not reached its terminal state.
Active(m) == m.handler # "none" /\ ~m.completed

RECURSIVE fpi_ssm_mark_completed(_, _)
RECURSIVE fpi_ssm_mark_failed(_, _, _)
RECURSIVE fpi_ssm_next_state(_, _)

\* The completion callback of a machine: dev_open_callback for the machine
\* started with fpi_ssm_start, __subsm_complete for a sub-machine.
fpi_ssm_mark_completed(c, m) ==
  LET c1 == [c EXCEPT !.ms[m].completed = TRUE]
      p  == c.ms[m].parent
  IN  IF p = NULL
      THEN [c1 EXCEPT !.pc = "dev_open_callback"]
      ELSE IF c1.ms[m].error # NULL
           THEN fpi_ssm_mark_failed(c1, p, c1.ms[m].error)
           ELSE fpi_ssm_next_state(c1, p)

fpi_ssm_mark_failed(c, m, error) ==
  fpi_ssm_mark_completed([c EXCEPT !.ms[m].error = error], m)

fpi_ssm_next_state(c, m) ==
  LET c1 == [c EXCEPT !.ms[m].cur_state = @ + 1]
  IN  IF c1.ms[m].cur_state = c1.ms[m].nr_states
      THEN fpi_ssm_mark_completed(c1, m)
      ELSE [c1 EXCEPT !.pc = c1.ms[m].handler]

fpi_ssm_start(c, m) ==
  [c EXCEPT !.ms[m].cur_state = 0, !.pc = c.ms[m].handler]

fpi_ssm_start_subsm(c, parent, child) ==
  fpi_ssm_start([c EXCEPT !.ms.sub = [child EXCEPT !.parent = parent]], "sub")

\* fpi_device_open_complete: the device is open when no error is reported.
fpi_device_open_complete(c, error) ==
  [c EXCEPT !.dev = IF error = NULL THEN "open" ELSE "closed",
            !.open_result = IF error = NULL THEN "ok" ELSE error,
            !.completions = @ + 1,
            !.pc = "idle"]

\* ------------------------------------------------------------ USB functions

\* An entry of log: a transfer submitted ("submit_write", "submit_read") or
\* completed ("write_done", "read_done") for the exchange of payload msg;
\* error is what happened to a completed transfer on the wire (NULL: success).
Event(ev, msg, error) == [ev |-> ev, msg |-> msg, error |-> error]

\* fpi_usb_transfer_submit.
fpi_usb_transfer_submit(c, transfer) ==
  [c EXCEPT !.transfers = Append(@, transfer),
            !.log = Append(@, Event(IF transfer.endpoint = "EP_OUT"
                                    THEN "submit_write" ELSE "submit_read",
                                    transfer.msg, NULL))]

\* Mutant: the write is submitted without short_is_error.
M_async_write_short_ok(c, m, data) ==
  [fpi_usb_transfer_submit(c, [endpoint |-> "EP_OUT", ssm |-> m, msg |-> data,
                               data |-> "request", length |-> 0,
                               short_is_error |-> FALSE, user_data |-> NULL])
     EXCEPT !.pc = "idle"]

\* data is the payload written, named by its index.
async_write(c, m, data) ==
  [fpi_usb_transfer_submit(c, [endpoint |-> "EP_OUT", ssm |-> m, msg |-> data,
                               data |-> "request", length |-> 0,
                               short_is_error |-> TRUE, user_data |-> NULL])
     EXCEPT !.pc = "idle"]

async_read(c, m, data, len, actual_length) ==
  [fpi_usb_transfer_submit(c, [endpoint |-> "EP_IN", ssm |-> m,
                               msg |-> c.ms[m].data,
                               data |-> IF data = NULL THEN "g_malloc0" ELSE data,
                               length |-> len, short_is_error |-> FALSE,
                               user_data |-> actual_length])
     EXCEPT !.pc = "idle"]

async_write_callback(c, transfer, error) ==
  IF error # NULL
  THEN fpi_ssm_mark_failed(c, transfer.ssm, error)
  ELSE fpi_ssm_next_state(c, transfer.ssm)

\* Mutant: the error of the read is not looked at.
M_async_read_callback_no_error_check(c, transfer, actual, error) ==
  LET c1 == IF transfer.user_data # NULL
            THEN [c EXCEPT !.self.buffer_length = actual]
            ELSE c
  IN  fpi_ssm_next_state(c1, transfer.ssm)

\* Mutant: the length requested is recorded, not the length received.
M_async_read_callback_requested_length(c, transfer, actual, error) ==
  IF error # NULL
  THEN fpi_ssm_mark_failed(c, transfer.ssm, error)
  ELSE LET c1 == IF transfer.user_data # NULL
                 THEN [c EXCEPT !.self.buffer_length = transfer.length]
                 ELSE c
       IN  fpi_ssm_next_state(c1, transfer.ssm)

async_read_callback(c, transfer, actual, error) ==
  IF error # NULL
  THEN fpi_ssm_mark_failed(c, transfer.ssm, error)
  ELSE LET c1 == IF transfer.user_data # NULL
                 THEN [c EXCEPT !.self.buffer_length = actual]
                 ELSE c
       IN  fpi_ssm_next_state(c1, transfer.ssm)

\* ---------------------------------------------------------- byte reader

\* FpiByteReader over the first size bytes of data; byte is the read position.
fpi_byte_reader_init(data, size) == [data |-> data, size |-> size, byte |-> 0]

fpi_byte_reader_get_remaining(r) == r.size - r.byte

\* skip fails, and leaves the position alone, when fewer than n bytes remain.
fpi_byte_reader_skip(r, n) ==
  IF fpi_byte_reader_get_remaining(r) < n THEN r ELSE [r EXCEPT !.byte = @ + n]

CanRead(r, n) == fpi_byte_reader_get_remaining(r) >= n

\* set_pos fails, and leaves the position alone, when pos is past the end.
fpi_byte_reader_set_pos(r, pos) ==
  IF pos > r.size THEN r ELSE [r EXCEPT !.byte = pos]

\* get_data of n bytes fails, and leaves the position alone, when fewer than
\* n bytes remain.
fpi_byte_reader_get_data(r, n) ==
  IF n > r.size \/ fpi_byte_reader_get_remaining(r) < n
  THEN r ELSE [r EXCEPT !.byte = @ + n]

\* The little-endian value of the n bytes at the read position.
RECURSIVE LeValue(_, _, _)
LeValue(data, at, n) ==
  IF n = 0 THEN 0 ELSE data[at + 1] + 256 * LeValue(data, at + 1, n - 1)

\* ------------------------------------------------------------- cryptography

\* The library primitives are abstract: SHA256, HMAC, AES-256-CBC and the
\* elliptic-curve operations are stand-ins that are deterministic, depend on
\* every input byte and have the sizes of the real ones.  Keys and digests
\* are byte sequences.

SHA256_DIGEST_LENGTH == 32

\* The bytes of data at offsets at .. at + n - 1 (offsets count from 0).
Bytes(data, at, n) == SubSeq(data, at + 1, at + n)

\* The stand-in digest works modulo a prime below 2^15 with the radix 31.
DigestModulus == 32749
DigestRadix == 31

\* DigestRadix to the power n, modulo DigestModulus.
RECURSIVE DigestPower(_)
DigestPower(n) ==
  IF n = 0 THEN 1
  ELSE LET h == DigestPower(n \div 2)
       IN  (((h * h) % DigestModulus) * (IF n % 2 = 1 THEN DigestRadix ELSE 1))
             % DigestModulus

\* data[lo] .. data[hi] read as the digits of a number in radix DigestRadix,
\* modulo DigestModulus: the value depends on every byte and on their order.
RECURSIVE SumBytes(_, _, _)
SumBytes(data, lo, hi) ==
  IF lo > hi THEN 0
  ELSE IF lo = hi THEN data[lo] + 1
  ELSE LET mid == (lo + hi) \div 2
       IN  (SumBytes(data, lo, mid) * DigestPower(hi - mid)
              + SumBytes(data, mid + 1, hi)) % DigestModulus

SHA256(data) ==
  LET sum == SumBytes(data, 1, Len(data))
  IN  [i \in 1..SHA256_DIGEST_LENGTH |->
         IF i = 1 THEN sum % 256
         ELSE IF i = 2 THEN sum \div 256
         ELSE (sum * i + Len(data)) % 256]

HMAC_SHA256(key, data) == SHA256(key \o SHA256(key \o data))

\* AES-256-CBC without padding: the plaintext has the length of the ciphertext.
EVP_Decrypt(key, iv, in) ==
  [i \in 1..Len(in) |-> (in[i] + 256 - ((key[1] + iv[1]) % 256)) % 256]

\* EC_KEY_set_public_key_affine_coordinates accepts the points of the curve.
EC_KEY_set_public_key_affine_coordinates(x, y) ==
  y[1] = (x[1] * x[1] + 7) % 256

\* EC_KEY_set_private_key accepts a non-zero scalar.
EC_KEY_set_private_key(d) == \E i \in 1..Len(d) : d[i] # 0

\* EC_KEY_check_key accepts a pair whose public point is the scalar's.
EC_KEY_check_key(x, y, d) == x[1] = (3 * d[1]) % 256

\* The DER signature the holder of key makes of dgst.
ECDSA_sign(dgst, key) == <<48, (dgst[1] + key[1]) % 256>>

\* ECDSA_verify: 1 valid, 0 not the signature, -1 not a DER signature.
ECDSA_verify(dgst, sig, key) ==
  IF Len(sig) < 2 \/ sig[1] # 48 THEN -1
  ELSE IF sig = ECDSA_sign(dgst, key) THEN 1 ELSE 0

\* The key material compiled into the driver (opaque byte strings).
PRE_KEY == <<113, 124, 215, 45>>
LABEL == <<71, 87, 75, 0>>
LABEL_SIGN == <<71, 87, 75, 95, 83, 73, 71, 78, 0>>
SIGN_KEY == <<30, 5, 191, 7>>
DEVICE_KEY_X == [i \in 1..32 |-> IF i = 1 THEN 9 ELSE 0]
DEVICE_KEY_Y == [i \in 1..32 |-> IF i = 1 THEN 88 ELSE 0]

\* The seed fpi_device_vfs0097_init stores: "VirtualBox\0" "0" with its
\* terminating zero, 13 bytes.
seed == <<86, 105, 114, 116, 117, 97, 108, 66, 111, 120, 0, 48, 0>>

Min(a, b) == IF a < b THEN a ELSE b

\* The loop of PRF_SHA256: A is A(i), out the output so far.
RECURSIVE PRF_SHA256_loop(_, _, _, _, _, _)
PRF_SHA256_loop(secret, label, seed_, A, out, len) ==
  IF Len(out) >= len THEN out
  ELSE LET P == HMAC_SHA256(secret, A \o label \o seed_)
           A1 == HMAC_SHA256(secret, A)
           size == Min(len - Len(out), SHA256_DIGEST_LENGTH)
       IN  PRF_SHA256_loop(secret, label, seed_, A1, out \o SubSeq(P, 1, size), len)

\* Mutant: the output starts with the digest made from A(0) instead of A(1).
M_PRF_SHA256_from_A0(secret, label, seed_, len) ==
  PRF_SHA256_loop(secret, label, seed_, label \o seed_, <<>>, len)

PRF_SHA256(secret, label, seed_, len) ==
  PRF_SHA256_loop(secret, label, seed_, HMAC_SHA256(secret, label \o seed_), <<>>, len)

\* ------------------------------------------------------------ block parser

\* The handlers of init_keys work on data, the memory of the response buffer
\* (all VFS_USB_BUFFER_SIZE bytes of it), and are given body, the offset of
\* the block body in it, or Dangling for a pointer that was never assigned.
\* o holds what the code leaves open: o.uninit, the value an uninitialized
\* integer holds; o.ub, what a read through a dangling pointer or past the end
\* of the buffer does ("crash", or "garbage": the process survives and the
\* value read passes no check); o.lib, the OpenSSL call that fails for lack of
\* resources (NULL: none).  A handler returns the session fields, what it
\* did, and whether the process crashed.
Dangling == 0 - 1

InBounds(data, at, n) == at # Dangling /\ at >= 0 /\ n >= 0 /\ at + n <= Len(data)

Handled(s, result) == [self |-> s, result |-> result, crash |-> FALSE]

Undefined(s, o) == [self |-> s, result |-> "undefined", crash |-> o.ub = "crash"]

init_certificate(s, data, body, size, o) ==
  Handled([s EXCEPT !.certificate_length = size,
                    !.certificate = Bytes(data, body, size)],
          "installed")

\* Mutant: the ciphertext is decrypted in place, in the response buffer.
M_init_private_key_in_place(s, data, body, size, o) ==
  IF InBounds(data, body + 1 + \h10, \h70)
  THEN Handled([s EXCEPT !.buffer =
                  [i \in 1..Len(@) |->
                     IF i > body + 1 + \h10 /\ i <= body + 1 + \h10 + \h70
                     THEN EVP_Decrypt(PRE_KEY, Bytes(data, body + 1, \h10),
                                      Bytes(data, body + 1 + \h10, \h70))[i - body - 1 - \h10]
                     ELSE @[i]]],
               "decrypted")
  ELSE Undefined(s, o)

\* Mutant: the signature over the ciphertext is not compared.
M_init_private_key_no_signature_check(s, data, body, size, o) ==
  LET AES_MASTER_KEY == PRF_SHA256(PRE_KEY, LABEL, seed, SHA256_DIGEST_LENGTH)
      encrypted == body + 1
  IN  IF ~InBounds(data, body, 1) THEN Undefined(s, o)
      ELSE IF data[body + 1] # 2 THEN Handled(s, "prefix")
      ELSE IF ~InBounds(data, encrypted, \h10 + \h70) THEN Undefined(s, o)
      ELSE
        LET decrypted == EVP_Decrypt(AES_MASTER_KEY, Bytes(data, encrypted, \h10),
                                     Bytes(data, encrypted + \h10, \h70))
            x == Bytes(decrypted, 0, \h20)
            y == Bytes(decrypted, \h20, \h20)
            d == Bytes(decrypted, \h40, \h20)
        IN  IF ~EC_KEY_set_public_key_affine_coordinates(x, y)
              THEN Handled(s, "coordinates")
            ELSE IF ~EC_KEY_set_private_key(d) THEN Handled(s, "private key")
            ELSE IF ~EC_KEY_check_key(x, y, d) THEN Handled(s, "check key")
            ELSE Handled([s EXCEPT !.private_key = x \o y \o d], "installed")

\* The two keys init_private_key derives: the second from the first.
init_private_key_keys(AES_MASTER_KEY) ==
  [AES_MASTER_KEY |-> AES_MASTER_KEY,
   VALIDATION_KEY |-> PRF_SHA256(AES_MASTER_KEY, LABEL_SIGN, SIGN_KEY,
                                 SHA256_DIGEST_LENGTH)]

\* init_private_key from EC_KEY_new_by_curve_name on: the key is built from
\* the x, y and d of the plaintext, checked and stored.
init_private_key_install(s, decrypted) ==
  LET x == Bytes(decrypted, 0, \h20)
      y == Bytes(decrypted, \h20, \h20)
      d == Bytes(decrypted, \h40, \h20)
  IN  IF ~EC_KEY_set_public_key_affine_coordinates(x, y)
        THEN Handled(s, "coordinates")
      ELSE IF ~EC_KEY_set_private_key(d) THEN Handled(s, "private key")
      ELSE IF ~EC_KEY_check_key(x, y, d) THEN Handled(s, "check key")
      ELSE Handled([s EXCEPT !.private_key = x \o y \o d], "installed")

\* init_private_key from the prefix check on, keys being the derived keys.
\* size - 1 - SHA256_DIGEST_LENGTH is computed as an int and passed as a
\* guint32: for a body shorter than 33 bytes HMAC is asked to read about 4 GiB.
init_private_key_checks(s, data, body, size, o, keys) ==
  LET encrypted == body + 1
      hash == body + size - SHA256_DIGEST_LENGTH
  IN  IF ~InBounds(data, body, 1) THEN Undefined(s, o)
      ELSE IF data[body + 1] # 2 THEN Handled(s, "prefix")
      ELSE IF \/ ~InBounds(data, encrypted, size - 1 - SHA256_DIGEST_LENGTH)
              \/ ~InBounds(data, hash, SHA256_DIGEST_LENGTH)
        THEN Undefined(s, o)
      ELSE IF HMAC_SHA256(keys.VALIDATION_KEY,
                          Bytes(data, encrypted, size - 1 - SHA256_DIGEST_LENGTH))
                # Bytes(data, hash, SHA256_DIGEST_LENGTH)
        THEN Handled(s, "signature")
      ELSE IF o.lib = "EVP_DecryptInit" THEN Handled(s, o.lib)
      ELSE IF ~InBounds(data, encrypted + \h10, \h70) THEN Undefined(s, o)
      ELSE IF o.lib \in {"EVP_DecryptUpdate", "EVP_DecryptFinal"} THEN Handled(s, o.lib)
      ELSE init_private_key_install(
             s, EVP_Decrypt(keys.AES_MASTER_KEY, Bytes(data, encrypted, \h10),
                            Bytes(data, encrypted + \h10, \h70)))

init_private_key(s, data, body, size, o) ==
  init_private_key_checks(
    s, data, body, size, o,
    init_private_key_keys(PRF_SHA256(PRE_KEY, LABEL, seed, SHA256_DIGEST_LENGTH)))

\* Mutant: the key is installed only after the signature was verified.
M_check_ecdh_install_verified(s, data, body, size, o) ==
  LET KEY_SIZE == \h90
      r0 == fpi_byte_reader_init(data, size)
      r1 == fpi_byte_reader_set_pos(r0, \h08)
      xb == IF CanRead(r1, \h20) THEN body + r1.byte ELSE Dangling
      r2 == fpi_byte_reader_get_data(r1, \h20)
      r3 == fpi_byte_reader_set_pos(r2, \h4c)
      yb == IF CanRead(r3, \h20) THEN body + r3.byte ELSE Dangling
      r4 == fpi_byte_reader_get_data(r3, \h20)
      r5 == fpi_byte_reader_set_pos(r4, KEY_SIZE)
      r6 == IF CanRead(r5, 4) THEN [r5 EXCEPT !.byte = @ + 4] ELSE r5
  IN  IF ~InBounds(data, xb, \h20) \/ ~InBounds(data, yb, \h20) THEN Undefined(s, o)
      ELSE IF ~EC_KEY_set_public_key_affine_coordinates(Bytes(data, xb, \h20),
                                                        Bytes(data, yb, \h20))
        THEN Handled(s, "coordinates")
      ELSE IF ~CanRead(r5, 4) \/ ~InBounds(data, body, KEY_SIZE) THEN Undefined(s, o)
      ELSE
        LET signature_length == LeValue(data, body + r5.byte, 4)
            verify_status ==
              ECDSA_verify(SHA256(Bytes(data, body, KEY_SIZE)),
                           Bytes(data, body + r6.byte, signature_length),
                           DEVICE_KEY_X \o DEVICE_KEY_Y)
        IN  IF ~CanRead(r6, signature_length) THEN Undefined(s, o)
            ELSE IF verify_status = 1
              THEN Handled([s EXCEPT !.ecdh_q = Bytes(data, xb, \h20) \o
                                                Bytes(data, yb, \h20)], "verified")
            ELSE Handled(s, IF verify_status = 0 THEN "untrusted" ELSE "verify error")

\* None of the reader calls is checked: a failed get_data leaves xb, yb or
\* signature unassigned, a failed get_uint32_le leaves signature_length
\* uninitialized, and SHA256 reads KEY_SIZE bytes whatever the size of the
\* body.  The key is stored in the session before the signature is looked at.
check_ecdh(s, data, body, size, o) ==
  LET KEY_SIZE == \h90
      r0 == fpi_byte_reader_init(data, size)
      r1 == fpi_byte_reader_set_pos(r0, \h08)
      xb == IF CanRead(r1, \h20) THEN body + r1.byte ELSE Dangling
      r2 == fpi_byte_reader_get_data(r1, \h20)
      r3 == fpi_byte_reader_set_pos(r2, \h4c)
      yb == IF CanRead(r3, \h20) THEN body + r3.byte ELSE Dangling
      r4 == fpi_byte_reader_get_data(r3, \h20)
  IN  IF ~InBounds(data, xb, \h20) \/ ~InBounds(data, yb, \h20) THEN Undefined(s, o)
      ELSE IF ~EC_KEY_set_public_key_affine_coordinates(Bytes(data, xb, \h20),
                                                        Bytes(data, yb, \h20))
        THEN Handled(s, "coordinates")
      ELSE
        LET s1 == [s EXCEPT !.ecdh_q = Bytes(data, xb, \h20) \o Bytes(data, yb, \h20)]
            r5 == fpi_byte_reader_set_pos(r4, KEY_SIZE)
            signature_length == IF CanRead(r5, 4)
                                THEN LeValue(data, body + r5.byte, 4) ELSE o.uninit
            r6 == IF CanRead(r5, 4) THEN [r5 EXCEPT !.byte = @ + 4] ELSE r5
            signature == IF CanRead(r6, signature_length)
                         THEN body + r6.byte ELSE Dangling
        IN  IF ~EC_KEY_set_public_key_affine_coordinates(DEVICE_KEY_X, DEVICE_KEY_Y)
              THEN Handled(s1, "device key")
            ELSE IF \/ ~InBounds(data, body, KEY_SIZE)
                    \/ ~InBounds(data, signature, signature_length)
              THEN Undefined(s1, o)
            ELSE
              LET verify_status ==
                    ECDSA_verify(SHA256(Bytes(data, body, KEY_SIZE)),
                                 Bytes(data, signature, signature_length),
                                 DEVICE_KEY_X \o DEVICE_KEY_Y)
              IN  Handled(s1, IF verify_status = 1 THEN "verified"
                              ELSE IF verify_status = 0 THEN "untrusted"
                              ELSE "verify error")

\* init_keys up to its assertion: the container header is a 2-byte skip, the
\* 4-byte little-endian payload size and a 2-byte skip.  A failed
\* get_uint32_le leaves size uninitialized: uninit is the value it then holds.
\* The result is the reader after the header, or "abort" when g_assert fails.
\* Mutant: the assertion accepts a buffer that holds more than the declared
\* size.
M_init_keys_header_at_least(s, uninit) ==
  LET r0 == fpi_byte_reader_init(s.buffer, s.buffer_length)
      r1 == fpi_byte_reader_skip(r0, 2)
      ok == CanRead(r1, 4)
      size == IF ok THEN LeValue(r1.data, r1.byte, 4) ELSE uninit
      r2 == IF ok THEN [r1 EXCEPT !.byte = @ + 4] ELSE r1
      r3 == fpi_byte_reader_skip(r2, 2)
  IN  [reader |-> r3, size |-> size,
       abort |-> fpi_byte_reader_get_remaining(r3) < size]

init_keys_header(s, uninit) ==
  LET r0 == fpi_byte_reader_init(s.buffer, s.buffer_length)
      r1 == fpi_byte_reader_skip(r0, 2)
      ok == CanRead(r1, 4)
      size == IF ok THEN LeValue(r1.data, r1.byte, 4) ELSE uninit
      r2 == IF ok THEN [r1 EXCEPT !.byte = @ + 4] ELSE r1
      r3 == fpi_byte_reader_skip(r2, 2)
  IN  [reader |-> r3, size |-> size,
       abort |-> fpi_byte_reader_get_remaining(r3) # size]

\* An entry of parsed: what one iteration of the block loop did (fn: the
\* handler called, "none" for a block without handler, "skipped" for a block
\* whose hash does not match), with the block id, the offset at which the
\* iteration started reading, the body pointer and size it used; or, with fn
\* "stop", why and at which offset the loop ended.
Parsed(fn, id, block, at, size, result) ==
  [fn |-> fn, id |-> id, block |-> block, at |-> at, size |-> size, result |-> result]

\* switch (id) of init_keys.
init_keys_dispatch(s, data, id, body, body_size, o) ==
  CASE id \in {0, 1, 2} -> Handled(s, "filler")
    [] id = 3 -> init_certificate(s, data, body, body_size, o)
    [] id = 4 -> init_private_key(s, data, body, body_size, o)
    [] id = 6 -> check_ecdh(s, data, body, body_size, o)
    [] OTHER -> Handled(s, "unhandled")

Handler(id) ==
  CASE id = 3 -> "init_certificate"
    [] id = 4 -> "init_private_key"
    [] id = 6 -> "check_ecdh"
    [] OTHER -> "none"

\* The rest of an iteration of the block loop, after its reads: k is the
\* state the iteration started in, k1 the state after the reads.  The hash
\* of the body is compared and the handler of the block called.
init_keys_verify(k1, o) ==
  LET data == k1.r.data
  IN  IF \/ ~InBounds(data, k1.body, k1.body_size)
         \/ ~InBounds(data, k1.hash, SHA256_DIGEST_LENGTH)
        THEN [fn |-> "skipped", h |-> Undefined(k1.self, o)]
      ELSE IF SHA256(Bytes(data, k1.body, k1.body_size))
                # Bytes(data, k1.hash, SHA256_DIGEST_LENGTH)
        THEN [fn |-> "skipped", h |-> Handled(k1.self, "hash mismatch")]
      ELSE [fn |-> Handler(k1.id),
            h |-> init_keys_dispatch(k1.self, data, k1.id, k1.body, k1.body_size, o)]

\* k1 with what the iteration did, v, recorded.
init_keys_record(k, k1, v) ==
  [k1 EXCEPT !.self = v.h.self, !.crash = v.h.crash,
             !.parsed = Append(@, Parsed(v.fn, k1.id, k.r.byte, k1.body,
                                         k1.body_size, v.h.result))]

RECURSIVE init_keys_loop(_, _)

\* The end of an iteration: k2 is the state it leaves.  An iteration that
\* leaves the reader and the locals as it found them is followed by the same
\* iteration again: the loop then never ends (hung).
init_keys_continue(k, k2, o) ==
  IF k2.crash THEN k2
  ELSE IF k2.r = k.r /\ k2.id = k.id /\ k2.body_size = k.body_size
          /\ k2.hash = k.hash /\ k2.body = k.body
    THEN [k2 EXCEPT !.hung = TRUE]
  ELSE init_keys_loop(k2, o)

init_keys_block(k, k1, o) ==
  init_keys_continue(k, init_keys_record(k, k1, init_keys_verify(k1, o)), o)

\* The block loop of init_keys.  k holds the reader, the locals id,
\* body_size, hash and body (offsets into the buffer), the session fields and
\* the entries of parsed.  No reader call is checked: a failed read leaves
\* the position and the local alone, so the iteration goes on with the value
\* of the previous iteration (or none, in the first).
init_keys_loop(k, o) ==
  IF fpi_byte_reader_get_remaining(k.r) <= 0
  THEN [k EXCEPT !.parsed = Append(@, Parsed("stop", 0, k.r.byte, 0, 0, "exhausted"))]
  ELSE
    LET data == k.r.data
        id == IF CanRead(k.r, 2) THEN LeValue(data, k.r.byte, 2) ELSE k.id
        r1 == IF CanRead(k.r, 2) THEN [k.r EXCEPT !.byte = @ + 2] ELSE k.r
        body_size == IF CanRead(r1, 2) THEN LeValue(data, r1.byte, 2) ELSE k.body_size
        r2 == IF CanRead(r1, 2) THEN [r1 EXCEPT !.byte = @ + 2] ELSE r1
        hash == IF CanRead(r2, SHA256_DIGEST_LENGTH) THEN r2.byte ELSE k.hash
        r3 == fpi_byte_reader_get_data(r2, SHA256_DIGEST_LENGTH)
        body == IF CanRead(r3, body_size) THEN r3.byte ELSE k.body
        r4 == fpi_byte_reader_get_data(r3, body_size)
    IN  IF id = 65535
        THEN [k EXCEPT !.r = r2, !.id = id, !.body_size = body_size,
                       !.parsed = Append(@, Parsed("stop", id, r2.byte, 0, 0,
                                                   "end marker"))]
        ELSE init_keys_block(k, [k EXCEPT !.r = r4, !.id = id,
                                          !.body_size = body_size,
                                          !.hash = hash, !.body = body], o)

\* Mutant: after the loop the parser asserts that it consumed the payload.
M_init_keys_assert_consumed(c, o) ==
  LET h == init_keys_header(c.self, o.uninit)
      k == init_keys_loop([r |-> h.reader, id |-> o.uninit, body_size |-> o.uninit,
                           hash |-> Dangling, body |-> Dangling, self |-> c.self,
                           parsed |-> <<>>, crash |-> FALSE, hung |-> FALSE], o)
  IN  IF h.abort THEN [c EXCEPT !.aborted = TRUE]
      ELSE [c EXCEPT !.self = k.self, !.parsed = k.parsed,
                     !.aborted = k.crash \/ fpi_byte_reader_get_remaining(k.r) # 0,
                     !.hung = k.hung]

\* init_keys: the header with its assertion, then the block loop.  The reader
\* is over the first buffer_length bytes of the buffer.  init_keys_return is
\* what the caller sees of the state the loop ended in.
init_keys_return(c, k) ==
  [c EXCEPT !.self = k.self, !.parsed = k.parsed,
            !.aborted = k.crash, !.hung = k.hung]

\* init_keys after the header h was read.
init_keys_blocks(c, h, o) ==
  IF h.abort THEN [c EXCEPT !.aborted = TRUE]
  ELSE init_keys_return(
         c, init_keys_loop([r |-> h.reader, id |-> o.uninit, body_size |-> o.uninit,
                            hash |-> Dangling, body |-> Dangling, self |-> c.self,
                            parsed |-> <<>>, crash |-> FALSE, hung |-> FALSE], o))

init_keys(c, o) == init_keys_blocks(c, init_keys_header(c.self, o.uninit), o)

\* ---------------------------------------------------------- proto functions

\* Mutant: the read is submitted together with the write.
M_exec_command_ssm_pipelined(c) ==
  CASE c.ms.sub.cur_state = EXEC_COMMAND_SM_WRITE ->
         async_read(async_write(c, "sub", c.ms.sub.data), "sub",
                    IF c.self.buffer = <<>> THEN NULL ELSE "self.buffer",
                    VFS_USB_BUFFER_SIZE, "self.buffer_length")
    [] c.ms.sub.cur_state = EXEC_COMMAND_SM_READ ->
         fpi_ssm_next_state(c, "sub")
    [] OTHER -> fpi_ssm_mark_failed(c, "sub", "FP_DEVICE_ERROR_PROTO")

exec_command_ssm(c) ==
  CASE c.ms.sub.cur_state = EXEC_COMMAND_SM_WRITE ->
         async_write(c, "sub", c.ms.sub.data)
    [] c.ms.sub.cur_state = EXEC_COMMAND_SM_READ ->
         async_read(c, "sub", IF c.self.buffer = <<>> THEN NULL ELSE "self.buffer",
                    VFS_USB_BUFFER_SIZE, "self.buffer_length")
    [] OTHER -> fpi_ssm_mark_failed(c, "sub", "FP_DEVICE_ERROR_PROTO")

\* Mutant: the command machine is started on its own with fpi_ssm_start, not
\* as a sub-machine of ssm.
M_exec_command_not_subsm(c, ssm, buffer) ==
  fpi_ssm_start([c EXCEPT !.ms.sub = fpi_ssm_new("exec_command_ssm",
                                                 EXEC_COMMAND_SM_STATES, buffer)],
                "sub")

exec_command(c, ssm, buffer) ==
  fpi_ssm_start_subsm(c, ssm,
                      fpi_ssm_new("exec_command_ssm", EXEC_COMMAND_SM_STATES, buffer))

\* Mutant: the case of GENERATE_CERTIFICATE is missing, so that state takes the
\* default branch.
M_handshake_ssm_no_certificate_case(c) ==
  CASE c.ms.sub.cur_state = TLS_HANDSHAKE_SM_CLIENT_HELLO ->
         fpi_ssm_next_state(c, "sub")
    [] c.ms.sub.cur_state = TLS_HANDSHAKE_SM_CLIENT_FINISHED ->
         fpi_ssm_next_state(c, "sub")
    [] OTHER -> fpi_ssm_mark_failed(c, "sub", "FP_DEVICE_ERROR_PROTO")

handshake_ssm(c) ==
  CASE c.ms.sub.cur_state = TLS_HANDSHAKE_SM_CLIENT_HELLO ->
         fpi_ssm_next_state(c, "sub")
    [] c.ms.sub.cur_state = TLS_HANDSHAKE_SM_GENERATE_CERTIFICATE ->
         fpi_ssm_next_state(c, "sub")
    [] c.ms.sub.cur_state = TLS_HANDSHAKE_SM_CLIENT_FINISHED ->
         fpi_ssm_next_state(c, "sub")
    [] OTHER -> fpi_ssm_mark_failed(c, "sub", "FP_DEVICE_ERROR_PROTO")

do_handshake(c, ssm) ==
  fpi_ssm_start_subsm(c, ssm, fpi_ssm_new("handshake_ssm", TLS_HANDSHAKE_STATES, 0))

\* --------------------------------------------------------- device functions

\* case SEND_INIT_2 of init_ssm.
init_ssm_SEND_INIT_2(c) == exec_command(c, "init", INIT_SEQUENCE_MSG2)

\* Mutant: the check compares with the marker of an unprovisioned device.
M_CHECK_INITIALIZED_marker(c) ==
  IF c.self.buffer_length = InitReplyLength
  THEN IF c.self.buffer[c.self.buffer_length] # 2
       THEN fpi_ssm_mark_failed(c, "init", "Device is not initialized")
       ELSE init_ssm_SEND_INIT_2(c)
  ELSE [c EXCEPT !.pc = "idle"]

\* Mutant: a passed check advances the machine and then still falls into
\* case SEND_INIT_2.
M_CHECK_INITIALIZED_advance(c) ==
  IF c.self.buffer_length = InitReplyLength
  THEN IF c.self.buffer[c.self.buffer_length] # InitializedMarker
       THEN fpi_ssm_mark_failed(c, "init", "Device is not initialized")
       ELSE init_ssm_SEND_INIT_2([c EXCEPT !.ms.init.cur_state = @ + 1])
  ELSE [c EXCEPT !.pc = "idle"]

\* case CHECK_INITIALIZED of init_ssm.  After a passed check there is no break
\* and no fpi_ssm_next_state: control falls into case SEND_INIT_2 with the
\* machine still in CHECK_INITIALIZED.  The else branch only warns and breaks.
init_ssm_CHECK_INITIALIZED(c) ==
  IF c.self.buffer_length = InitReplyLength
  THEN IF c.self.buffer[c.self.buffer_length] # InitializedMarker
       THEN fpi_ssm_mark_failed(c, "init", "Device is not initialized")
       ELSE init_ssm_SEND_INIT_2(c)
  ELSE [c EXCEPT !.pc = "idle"]

\* case INIT_KEYS of init_ssm.
\* fpi_ssm_next_state after init_keys, when init_keys returned.
init_ssm_INIT_KEYS_next(c1) ==
  IF c1.aborted \/ c1.hung THEN c1 ELSE fpi_ssm_next_state(c1, "init")

init_ssm_INIT_KEYS(c, o) == init_ssm_INIT_KEYS_next(init_keys(c, o))

init_ssm(c, o) ==
  CASE c.ms.init.cur_state = SEND_INIT_1 ->
         exec_command(c, "init", INIT_SEQUENCE_MSG1)
    [] c.ms.init.cur_state = CHECK_INITIALIZED -> init_ssm_CHECK_INITIALIZED(c)
    [] c.ms.init.cur_state = SEND_INIT_2 -> init_ssm_SEND_INIT_2(c)
    [] c.ms.init.cur_state = GET_PARTITION_HEADER ->
         exec_command(c, "init", INIT_SEQUENCE_MSG3)
    [] c.ms.init.cur_state = SEND_INIT_4 ->
         exec_command(c, "init", INIT_SEQUENCE_MSG4)
    [] c.ms.init.cur_state = GET_FLASH_INFO ->
         exec_command(c, "init", INIT_SEQUENCE_MSG5)
    [] c.ms.init.cur_state = READ_FLASH_TLS_DATA ->
         exec_command(c, "init", INIT_SEQUENCE_MSG6)
    [] c.ms.init.cur_state = INIT_KEYS -> init_ssm_INIT_KEYS(c, o)
    [] c.ms.init.cur_state = HANDSHAKE -> do_handshake(c, "init")
    [] OTHER -> fpi_ssm_mark_failed(c, "init", "FP_DEVICE_ERROR_PROTO")

\* Mutant: close keeps the seed.
M_clear_data_keeps_seed(s) ==
  [s EXCEPT !.buffer = <<>>, !.certificate = <<>>,
            !.private_key = <<>>, !.ecdh_q = <<>>]

clear_data(s) ==
  [s EXCEPT !.seed = NULL, !.buffer = <<>>, !.certificate = <<>>,
            !.private_key = <<>>, !.ecdh_q = <<>>]

dev_open_callback(c) == fpi_device_open_complete(c, c.ms.init.error)

\* What resetting, configuring and claiming the USB device and NSS_NoDB_Init
\* can report.
OpenEnv ==
  {"ok", "g_usb_device_reset", "g_usb_device_get_configuration",
   "g_usb_device_claim_interface", "Could not initialize NSS"}

dev_open(c, env) ==
  IF c.self.seed = NULL
  THEN fpi_device_open_complete(c, "Seed value is not initialized")
  ELSE IF env # "ok"
  THEN fpi_device_open_complete(c, env)
  ELSE fpi_ssm_start([c EXCEPT !.self.buffer = Zeros(VFS_USB_BUFFER_SIZE),
                               !.ms.init = fpi_ssm_new("init_ssm", INIT_SM_STATES, 0)],
                     "init")

dev_close(c) ==
  [c EXCEPT !.self = clear_data(c.self), !.dev = "closed", !.pc = "idle"]

\* fpi_device_vfs0097_init: the seed is set at construction; the other fields
\* of the GObject instance start zeroed.
fpi_device_vfs0097_init ==
  [seed |-> "VirtualBox", buffer |-> <<>>, buffer_length |-> 0,
   certificate |-> <<>>, certificate_length |-> 0,
   private_key |-> <<>>, ecdh_q |-> <<>>]

\* ------------------------------------------------------------- environment

Resp(n, b) == [i \in 1..n |-> b]

\* What the device may answer to a read: any length up to the capacity, any
\* content (a sample of lengths and fill bytes).
ResponseLengths == {0, 8, InitReplyLength, VFS_USB_BUFFER_SIZE}
ResponseBytes == {0, 2, InitializedMarker}
Responses == {Resp(n, b) : n \in ResponseLengths, b \in ResponseBytes}

\* The flash containers the device may answer to READ_FLASH_TLS_DATA.

\* v as n little-endian bytes.
RECURSIVE Le(_, _)
Le(v, n) == IF n = 0 THEN <<>> ELSE <<v % 256>> \o Le(v \div 256, n - 1)

\* data with the byte at offset at increased by one.
Altered(data, at) == [data EXCEPT ![at + 1] = (@ + 1) % 256]

Block(id, body) == Le(id, 2) \o Le(Len(body), 2) \o SHA256(body) \o body

\* A block whose stored hash is not the hash of its body.
CorruptBlock(id, body) == Altered(Block(id, body), 4)

EndMarker == <<255, 255, 0, 0>>

\* A container that declares size bytes of payload.
Declared(size, payload) == <<0, 0>> \o Le(size, 4) \o <<0, 0>> \o payload

Container(payload) == Declared(Len(payload), payload)

Number(b) == [i \in 1..32 |-> IF i = 1 THEN b ELSE 0]

\* An encrypted-private-key body for the pair (x, y, d): prefix, 16 bytes
\* used as IV, \h70 bytes of ciphertext, the HMAC of IV and ciphertext.
PrivateKeyBody(prefix, x, y, d) ==
  LET AES_MASTER_KEY == PRF_SHA256(PRE_KEY, LABEL, seed, SHA256_DIGEST_LENGTH)
      VALIDATION_KEY == PRF_SHA256(AES_MASTER_KEY, LABEL_SIGN, SIGN_KEY,
                                   SHA256_DIGEST_LENGTH)
      iv == [i \in 1..16 |-> i]
      plain == Number(x) \o Number(y) \o Number(d) \o Zeros(16)
      cipher == [i \in 1..Len(plain) |->
                   (plain[i] + AES_MASTER_KEY[1] + iv[1]) % 256]
  IN  <<prefix>> \o iv \o cipher \o HMAC_SHA256(VALIDATION_KEY, iv \o cipher)

\* The 0x90 signed bytes of an ECDH body with the point (x, y).
EcdhKey(x, y) ==
  Zeros(8) \o Number(x) \o Zeros(36) \o Number(y) \o Zeros(36)

\* An ECDH body: the signed bytes, the signature length, the signature, zeros.
EcdhBody(x, y, signature) ==
  EcdhKey(x, y) \o Le(Len(signature), 4) \o signature \o <<0, 0>>

DeviceSignature(x, y) ==
  ECDSA_sign(SHA256(EcdhKey(x, y)), DEVICE_KEY_X \o DEVICE_KEY_Y)

Certificate == <<48, 130, 1>>

\* Two key pairs the stand-in curve accepts: (x, y, d) = (15, 232, 5) and
\* (18, 75, 6).
GoodPrivateKey == PrivateKeyBody(2, 15, 232, 5)
OtherPrivateKey == PrivateKeyBody(2, 18, 75, 6)
GoodEcdh == EcdhBody(15, 232, DeviceSignature(15, 232))
OtherEcdh == EcdhBody(18, 75, DeviceSignature(18, 75))

FlashContainers ==
  { \* certificate, private key and ECDH key, end marker, padding
    Container(Block(3, Certificate) \o Block(4, GoodPrivateKey) \o Block(6, GoodEcdh)
              \o EndMarker \o <<255, 255, 255, 255>>),
    \* a filler, a certificate with a wrong hash, a certificate, an unknown id
    Container(Block(0, Zeros(4)) \o CorruptBlock(3, Certificate)
              \o Block(3, <<9, 9>>) \o Block(5, <<1>>)),
    \* one ciphertext byte altered; one signature byte altered
    Container(Block(4, Altered(GoodPrivateKey, 20))
              \o Block(6, EcdhBody(15, 232, Altered(DeviceSignature(15, 232), 1)))),
    \* wrong prefix; a pair that does not match
    Container(Block(4, PrivateKeyBody(1, 15, 232, 5))
              \o Block(4, PrivateKeyBody(2, 15, 232, 7))),
    \* a point off the curve; a zero scalar
    Container(Block(4, PrivateKeyBody(2, 15, 0, 5))
              \o Block(4, PrivateKeyBody(2, 0, 7, 0))),
    \* a signature that is not DER; a point off the curve
    Container(Block(6, EcdhBody(15, 232, <<1, 1>>))
              \o Block(6, EcdhBody(15, 0, DeviceSignature(15, 0)))),
    \* two private keys; two ECDH keys
    Container(Block(4, GoodPrivateKey) \o Block(4, OtherPrivateKey)),
    Container(Block(6, GoodEcdh) \o Block(6, OtherEcdh)),
    \* bodies too short for their handlers
    Container(Block(4, <<2>>)),
    Container(Block(6, Zeros(16))),
    \* bytes after the last block that are no block
    Container(Block(0, Certificate) \o <<3, 0>>),
    Container(Block(0, <<>>) \o <<0>>),
    Container(<<0>>),
    \* a declared size that is not the size of the payload
    Declared(5, Block(3, Certificate) \o Block(6, GoodEcdh)) }

\* What the device may answer to the command msg.
ResponsesTo(msg) ==
  IF msg = INIT_SEQUENCE_MSG6 THEN Responses \cup FlashContainers ELSE Responses

\* The values an uninitialized integer is observed to hold.
Uninit == {0, 1, 2, 65535}

\* What a read through a dangling pointer or past the buffer does.
UndefinedOutcomes == {"crash", "garbage"}

\* The OpenSSL call of init_private_key that fails for lack of resources.
LibraryFailures == {NULL, "EVP_DecryptInit", "EVP_DecryptUpdate", "EVP_DecryptFinal"}

Oracles == [uninit : Uninit, ub : UndefinedOutcomes, lib : LibraryFailures]

\* What can happen to a bulk write and to a bulk read on the wire.
WriteOutcomes == {NULL, "write failed", "timeout", "short write"}
ReadErrors == {NULL, "read failed", "timeout"}

\* The error the transport hands to the completion callback: a short transfer
\* is an error only for a transfer submitted with short_is_error.
TransferError(transfer, outcome) ==
  IF outcome = "short write" /\ ~transfer.short_is_error THEN NULL ELSE outcome

\* The transport stores the bytes received at the start of the transfer buffer.
Received(buf, r) ==
  [i \in 1..Len(buf) |-> IF i <= Len(r) THEN r[i] ELSE buf[i]]

Remove(seq, i) == [j \in 1..(Len(seq) - 1) |-> IF j < i THEN seq[j] ELSE seq[j + 1]]

\* ----------------------------------------------------------------- actions

\* No call of PRF_SHA256 is examined on its own.
NoPrf ==
  [secret |-> <<>>, label |-> <<>>, seed |-> <<>>, len |-> 0, out |-> <<>>,
   returned |-> FALSE]

\* The device object after construction.
Constructed ==
  /\ self = fpi_device_vfs0097_init
  /\ ms = [init |-> NoSsm, sub |-> NoSsm]
  /\ transfers = <<>>
  /\ pc = "idle"
  /\ dev = "closed"
  /\ open_result = "none"
  /\ opens = 0
  /\ completions = 0
  /\ log = <<>>
  /\ last_read = [actual |-> 0, error |-> NULL]
  /\ visited = <<>>
  /\ parsed = <<>>

Init == Constructed /\ prf = NoPrf

DevOpen ==
  /\ pc = "idle"
  /\ dev = "closed"
  /\ opens < MaxOpens
  /\ \E env \in OpenEnv :
       Commit(dev_open([Ctx EXCEPT !.dev = "opening", !.open_result = "none",
                                   !.completions = 0, !.log = <<>>,
                                   !.parsed = <<>>],
                        env))
  /\ opens' = opens + 1
  /\ visited' = <<>>
  /\ UNCHANGED last_read

InitSsm ==
  /\ pc = "init_ssm"
  /\ \E o \in Oracles : Commit(init_ssm(Ctx, o))
  /\ visited' = Append(visited, ms.init.cur_state)
  /\ UNCHANGED <<opens, last_read>>

ExecCommandSsm ==
  /\ pc = "exec_command_ssm"
  /\ Commit(exec_command_ssm(Ctx))
  /\ UNCHANGED <<opens, last_read, visited>>

HandshakeSsm ==
  /\ pc = "handshake_ssm"
  /\ Commit(handshake_ssm(Ctx))
  /\ UNCHANGED <<opens, last_read, visited>>

AsyncWriteCallback ==
  /\ pc = "idle"
  /\ \E i \in 1..Len(transfers) :
       /\ transfers[i].endpoint = "EP_OUT"
       /\ \E outcome \in WriteOutcomes :
            Commit(async_write_callback(
              [Ctx EXCEPT !.transfers = Remove(@, i),
                          !.log = Append(@, Event("write_done", transfers[i].msg,
                                                  outcome))],
              transfers[i], TransferError(transfers[i], outcome)))
  /\ UNCHANGED <<opens, last_read, visited>>

AsyncReadCallback ==
  /\ pc = "idle"
  /\ \E i \in 1..Len(transfers) :
       /\ transfers[i].endpoint = "EP_IN"
       /\ \E error \in ReadErrors, r \in ResponsesTo(transfers[i].msg) :
            /\ Len(r) <= transfers[i].length
            /\ Commit(async_read_callback(
                 [Ctx EXCEPT !.transfers = Remove(@, i),
                             !.log = Append(@, Event("read_done", transfers[i].msg,
                                                     error)),
                             !.self.buffer = IF transfers[i].data = "self.buffer"
                                             THEN Received(@, r) ELSE @],
                 transfers[i], Len(r), error))
            /\ last_read' = [actual |-> Len(r), error |-> error]
  /\ UNCHANGED <<opens, visited>>

DevOpenCallback ==
  /\ pc = "dev_open_callback"
  /\ Commit(dev_open_callback(Ctx))
  /\ UNCHANGED <<opens, last_read, visited>>

DevClose ==
  /\ pc = "idle"
  /\ dev = "open"
  /\ Commit(dev_close(Ctx))
  /\ UNCHANGED <<opens, last_read, visited>>

Next ==
  \/ DevOpen
  \/ InitSsm
  \/ ExecCommandSsm
  \/ HandshakeSsm
  \/ AsyncWriteCallback
  \/ AsyncReadCallback
  \/ DevOpenCallback
  \/ DevClose

Spec == Init /\ [][Next]_vars

\* ------------------------------------------------- PRF_SHA256 on its own

\* PRF_SHA256 is a pure function: it is examined on arguments of its own,
\* among them the ones init_private_key passes, empty ones, and every
\* length up to MaxPrfLength.
PrfSecrets == {PRE_KEY, <<>>, [i \in 1..SHA256_DIGEST_LENGTH |-> (7 * i) % 256]}
PrfLabels == {LABEL, LABEL_SIGN, <<>>}
PrfSeeds == {seed, SIGN_KEY, <<>>}

PrfInit ==
  /\ Constructed
  /\ prf \in [secret : PrfSecrets, label : PrfLabels, seed : PrfSeeds,
              len : 0..MaxPrfLength, out : {<<>>}, returned : {FALSE}]

PrfCall ==
  /\ ~prf.returned
  /\ prf' = [prf EXCEPT !.out = PRF_SHA256(prf.secret, prf.label, prf.seed, prf.len),
                        !.returned = TRUE]
  /\ UNCHANGED <<self, ms, transfers, pc, dev, open_result, opens, completions,
                 log, last_read, visited, parsed>>

PrfNext == PrfCall

PrfSpec == PrfInit /\ [][PrfNext]_vars

\* ------------------------------------------------------------------ claims

Last(seq) == seq[Len(seq)]

IsSubmitWrite(e) == e.ev = "submit_write"
IsReadDone(e) == e.ev = "read_done" /\ e.error = NULL

\* The payloads written to the device during the current open(), in order.
Written ==
  LET w == SelectSeq(log, IsSubmitWrite) IN [i \in 1..Len(w) |-> w[i].msg]

\* The exchanges completed during the current open(), in order.
Answered ==
  LET a == SelectSeq(log, IsReadDone) IN [i \in 1..Len(a) |-> a[i].msg]

NotInitialized == "Device is not initialized"

\* C1: a started open() always reaches its completion callback: while the
\* device is opening and control is back in the main loop, a transfer is in
\* flight whose completion resumes the machine.  (Stated as the claim; the
\* code violates it.)
C1_OpenNeverStalls ==
  (dev = "opening" /\ pc = "idle") => transfers # <<>>

\* C2: when CHECK_INITIALIZED runs on a response whose length is not 38, the
\* machine does not fail and does not stop: it is in SEND_INIT_2 or has the
\* next command exchange running.  (Stated as the claim; the code violates
\* it.)
C2_UnknownReplyProceeds ==
  [][(/\ pc = "init_ssm"
      /\ ms.init.cur_state = CHECK_INITIALIZED
      /\ self.buffer_length # InitReplyLength)
     => (/\ ~ms'.init.completed
         /\ ms'.init.cur_state = SEND_INIT_2 \/ Active(ms'.sub))]_vars

\* The CHECK_INITIALIZED handler has run, on a 38-byte response whose last
\* byte is not 0x07 (the buffer is as the check saw it: only the first
\* payload was written).
C3_Case ==
  /\ Len(visited) = 2
  /\ Written = <<INIT_SEQUENCE_MSG1>>
  /\ self.buffer_length = InitReplyLength
  /\ self.buffer[InitReplyLength] # InitializedMarker

C3_Failed ==
  /\ ms.init.completed
  /\ ms.init.error = NotInitialized
  /\ ms.init.cur_state = CHECK_INITIALIZED
  /\ ~Active(ms.sub)
  /\ transfers = <<>>
  /\ pc \in {"dev_open_callback", "idle"}
  /\ pc = "idle" => (open_result = NotInitialized /\ dev = "closed"
                     /\ completions = 1)

\* C3: a 38-byte first response whose last byte is not 0x07 fails the machine
\* in CHECK_INITIALIZED with "Device is not initialized", the error reaches
\* the open completion, and until the next open() no state is entered and
\* nothing is written.
C3_NotInitializedFails ==
  [][/\ C3_Case' => C3_Failed'
     /\ C3_Case => (opens' # opens \/ (visited' = visited /\ log' = log))]_vars

C3_Witness ==
  C3_Case /\ pc = "idle" /\ open_result = NotInitialized

\* C4: an open() that reports success has written the six payloads once
\* each, in order, in six exchanges.  (Stated as the claim; the code violates
\* it.)
C4_SixExchanges ==
  open_result = "ok" =>
    /\ Written = <<INIT_SEQUENCE_MSG1, INIT_SEQUENCE_MSG2, INIT_SEQUENCE_MSG3,
                   INIT_SEQUENCE_MSG4, INIT_SEQUENCE_MSG5, INIT_SEQUENCE_MSG6>>
    /\ Answered = Written

\* C5: the handlers of the initialization machine run for the states 0, 1,
\* 2, ... in order, none skipped or revisited; after a handler ran the
\* machine is in that state or in its successor; INIT_KEYS and HANDSHAKE are
\* entered only after the exchange of READ_FLASH_TLS_DATA was answered.
C5_Sequential ==
  /\ \A i \in 1..Len(visited) : visited[i] = i - 1
  /\ visited # <<>> =>
       /\ ms.init.cur_state \in {Last(visited), Last(visited) + 1}
       /\ ms.init.cur_state <= INIT_SM_STATES
       /\ ms.init.cur_state >= INIT_KEYS =>
            (log # <<>> /\ Last(log) = Event("read_done", INIT_SEQUENCE_MSG6, NULL))

C5_Witness ==
  /\ open_result = "ok"
  /\ visited = <<SEND_INIT_1, CHECK_INITIALIZED, SEND_INIT_2,
                 GET_PARTITION_HEADER, SEND_INIT_4, GET_FLASH_INFO,
                 READ_FLASH_TLS_DATA, INIT_KEYS, HANDSHAKE>>
  /\ ms.init.cur_state = INIT_SM_STATES

\* A transfer of the current open() completed with an error.
TransportFailed == log # <<>> /\ Last(log).error # NULL

\* C6: once a write or a read of any exchange completed with an error, the
\* command machine and the initialization machine have failed with that
\* error, which is what the open completion reports; until the next open()
\* no transfer is submitted and no state is entered.
C6_TransportErrorFatal ==
  [][/\ TransportFailed' =>
          /\ ms'.sub.completed /\ ms'.sub.error = Last(log').error
          /\ ms'.init.completed /\ ms'.init.error = Last(log').error
          /\ transfers' = <<>>
          /\ pc' \in {"dev_open_callback", "idle"}
          /\ pc' = "idle" => (/\ open_result' = Last(log').error
                              /\ dev' = "closed"
                              /\ completions' = 1)
     /\ TransportFailed =>
          (opens' # opens \/ (log' = log /\ visited' = visited /\ ms' = ms))]_vars

C6_Witness ==
  /\ pc = "idle"
  /\ log # <<>>
  /\ Last(log) = Event("read_done", INIT_SEQUENCE_MSG4, "timeout")
  /\ ms.init.cur_state = SEND_INIT_4
  /\ open_result = "timeout"

\* C7: a read is submitted only right after the write of the same exchange
\* completed with all bytes written; a read and a write are never in flight
\* together; a write that failed or fell short is the last transfer of its
\* open().
C7_ReadAfterWrite ==
  /\ \A i \in 1..Len(log) :
       /\ log[i].ev = "submit_read" =>
            (i > 1 /\ log[i - 1] = Event("write_done", log[i].msg, NULL))
       /\ (log[i].ev = "write_done" /\ log[i].error # NULL) => i = Len(log)
  /\ \A i, j \in 1..Len(transfers) :
       ~(transfers[i].endpoint = "EP_IN" /\ transfers[j].endpoint = "EP_OUT")

C7_Witness ==
  /\ Len(transfers) = 1
  /\ transfers[1].endpoint = "EP_IN"
  /\ Last(log) = Event("submit_read", INIT_SEQUENCE_MSG3, NULL)

\* C8: at most one transfer is in flight, and the write of a command is
\* submitted only first or right after the read of the previous command
\* completed.
C8_NoPipelining ==
  /\ Len(transfers) <= 1
  /\ \A i \in 1..Len(log) :
       (log[i].ev = "submit_write" /\ i > 1) =>
         (log[i - 1].ev = "read_done" /\ log[i - 1].error = NULL)
  /\ transfers # <<>> => (Active(ms.sub) /\ ms.sub.handler = "exec_command_ssm")

C8_Witness ==
  /\ Len(transfers) = 1
  /\ transfers[1].endpoint = "EP_OUT"
  /\ Len(log) = 5
  /\ Last(log) = Event("submit_write", INIT_SEQUENCE_MSG2, NULL)

\* A read just completed.
ReadCompleted == log' # log /\ log' # <<>> /\ Last(log').ev = "read_done"

\* C9: a read that completes without error, however few bytes it received,
\* completes the exchange successfully and records the number of bytes
\* received as the response length; a read that fails leaves the recorded
\* length alone; the recorded length never exceeds the buffer capacity.
C9_ShortReadRecorded ==
  [][/\ self'.buffer_length <= VFS_USB_BUFFER_SIZE
     /\ (ReadCompleted /\ Last(log').error = NULL) =>
          /\ self'.buffer_length = last_read'.actual
          /\ ms'.sub.completed /\ ms'.sub.error = NULL
          /\ ms'.init.error = NULL
     /\ (ReadCompleted /\ Last(log').error # NULL) =>
          self'.buffer_length = self.buffer_length]_vars

C9_Witness ==
  /\ log # <<>>
  /\ Last(log) = Event("read_done", INIT_SEQUENCE_MSG3, NULL)
  /\ last_read.actual = 8
  /\ self.buffer_length = 8
  /\ ms.sub.completed /\ ms.sub.error = NULL

\* C10: while the sub-machine of the initialization machine is active the
\* parent does not change and no handler of the parent is pending; when the
\* sub-machine reaches its terminal state the parent advances by exactly one
\* state; when it fails the parent fails, in its state, with the same error.
C10_ParentSuspended ==
  [][/\ (Active(ms.sub) /\ Active(ms'.sub)) =>
          (ms'.init = ms.init /\ pc' # "init_ssm")
     /\ (Active(ms.sub) /\ ~Active(ms'.sub) /\ ms'.sub.error = NULL) =>
          /\ ms'.init.cur_state = ms.init.cur_state + 1
          /\ ms'.init.error = NULL
     /\ (Active(ms.sub) /\ ~Active(ms'.sub) /\ ms'.sub.error # NULL) =>
          /\ ms'.init.completed
          /\ ms'.init.error = ms'.sub.error
          /\ ms'.init.cur_state = ms.init.cur_state
     /\ pc' = "init_ssm" => ~Active(ms'.sub)]_vars

C10_Witness ==
  /\ ms.sub.handler = "handshake_ssm"
  /\ ms.sub.completed
  /\ ms.sub.error = NULL
  /\ ms.init.completed
  /\ ms.init.cur_state = INIT_SM_STATES

\* C11: the handshake machine starts in CLIENT_HELLO, each call of its handler
\* advances it by exactly one state (so CLIENT_HELLO, GENERATE_CERTIFICATE and
\* CLIENT_FINISHED are visited in order, once each), no call submits or
\* completes a transfer, the machine never carries an error and it ends in its
\* terminal state.
C11_HandshakeLinear ==
  [][/\ (pc' = "handshake_ssm" /\ pc # "handshake_ssm") =>
          (ms'.sub.handler = "handshake_ssm" /\ ms'.sub.cur_state = TLS_HANDSHAKE_SM_CLIENT_HELLO)
     /\ pc = "handshake_ssm" =>
          /\ ms.sub.cur_state \in {TLS_HANDSHAKE_SM_CLIENT_HELLO,
                                   TLS_HANDSHAKE_SM_GENERATE_CERTIFICATE,
                                   TLS_HANDSHAKE_SM_CLIENT_FINISHED}
          /\ ms'.sub.cur_state = ms.sub.cur_state + 1
          /\ ms'.sub.error = NULL
          /\ transfers' = transfers /\ transfers = <<>>
          /\ log' = log
          /\ IF ms.sub.cur_state = TLS_HANDSHAKE_SM_CLIENT_FINISHED
               THEN ms'.sub.completed /\ pc' # "handshake_ssm"
               ELSE ~ms'.sub.completed /\ pc' = "handshake_ssm"]_vars

C11_Witness ==
  /\ ms.sub.handler = "handshake_ssm"
  /\ ms.sub.cur_state = TLS_HANDSHAKE_STATES
  /\ ms.sub.completed
  /\ ms.sub.error = NULL

\* The last open() completed with an error.
OpenFailed == open_result \notin {"none", "ok"}

\* The error reported is the error of a transfer of this open() that failed.
CausedByTransport == TransportFailed /\ open_result = Last(log).error

\* The error reported is that of the provisioning check, made on a 38-byte
\* first response whose last byte is not 0x07.
CausedByProvisioningCheck ==
  /\ open_result = NotInitialized
  /\ ~TransportFailed
  /\ Answered = <<INIT_SEQUENCE_MSG1>>
  /\ Len(visited) = 2 /\ visited[2] = CHECK_INITIALIZED

\* The error reported is one dev_open raises itself, before the
\* initialization machine is started and before any transfer.
CausedBySetup ==
  /\ open_result \in (OpenEnv \ {"ok"}) \cup {"Seed value is not initialized"}
  /\ log = <<>>
  /\ visited = <<>>

\* C13 as claimed: an open() that completed with an error failed because of a
\* transport failure or because of the provisioning check.  (The code also
\* fails open() in dev_open itself.)
C13_OnlyTransportOrProvisioning ==
  OpenFailed => (CausedByTransport \/ CausedByProvisioningCheck)

\* C13 amended: an open() that completed with an error failed because of a
\* transport failure, because of the provisioning check, or because dev_open
\* itself failed before starting the initialization machine (no seed, USB
\* reset / configuration / claim error, NSS initialization error); nothing
\* else makes open() report an error.
C13_OpenErrorCauses ==
  OpenFailed => (CausedByTransport \/ CausedByProvisioningCheck \/ CausedBySetup)

C13_Witness ==
  /\ opens = 2
  /\ open_result = "Seed value is not initialized"
  /\ dev = "closed"
  /\ log = <<>>

\* The initialization machine is about to run INIT_KEYS.
AtInitKeys == pc = "init_ssm" /\ ms.init.cur_state = INIT_KEYS

\* The response holds the 8-byte container header.
HasHeader == self.buffer_length >= 8

\* The payload size the container header declares, and the bytes that follow
\* the header.
DeclaredSize ==
  self.buffer[3] + 256 * self.buffer[4] + 65536 * self.buffer[5]
    + 16777216 * self.buffer[6]

AfterHeader == self.buffer_length - 8

NoKeys(s) == s.certificate = <<>> /\ s.private_key = <<>> /\ s.ecdh_q = <<>>

\* C14: when INIT_KEYS runs on a response whose bytes after the 8-byte header
\* are not as many as the header declares, the process is aborted by the
\* assertion: no block was read, no certificate, private key or ECDH key is
\* installed, and the initialization machine is still in INIT_KEYS.
C14_SizeMismatchFaults ==
  [][(AtInitKeys /\ HasHeader /\ AfterHeader # DeclaredSize) =>
       /\ pc' = "aborted"
       /\ parsed' = <<>>
       /\ self' = self /\ NoKeys(self')
       /\ ms' = ms /\ transfers' = <<>>
       /\ open_result' = "none"]_vars

C14_Witness ==
  /\ pc = "aborted"
  /\ parsed = <<>>
  /\ ms.init.cur_state = INIT_KEYS
  /\ DeclaredSize = 5 /\ AfterHeader > 5
  /\ self.buffer[9] = 3
  /\ NoKeys(self)

\* INIT_KEYS is about to run on a container that passes the size check.
AtInitKeysOnContainer == AtInitKeys /\ HasHeader /\ AfterHeader = DeclaredSize

Le16(data, at) == data[at + 1] + 256 * data[at + 2]

IsCall(e) == e.fn \in {"init_certificate", "init_private_key", "check_ecdh"}

\* The handler invocations recorded in p, in order: block id and the offset
\* of the block.
Calls(p) ==
  LET c == SelectSeq(p, IsCall)
  IN  [i \in 1..Len(c) |-> [id |-> c[i].id, block |-> c[i].block]]

\* The handler invocations the block format prescribes for the container in
\* data[1..len], read from offset at: the blocks up to the end marker or the
\* end of the payload, those with id 3, 4 or 6 whose stored hash is the hash
\* of their body.  Bytes that do not make up a whole block are no block.
RECURSIVE ExpectedCalls(_, _, _)
ExpectedCalls(data, len, at) ==
  IF at + 4 > len THEN <<>>
  ELSE LET id == Le16(data, at)
           n == Le16(data, at + 2)
           next == at + 4 + SHA256_DIGEST_LENGTH + n
       IN  IF id = 65535 \/ next > len THEN <<>>
           ELSE (IF /\ id \in {3, 4, 6}
                    /\ SHA256(Bytes(data, at + 4 + SHA256_DIGEST_LENGTH, n))
                         = Bytes(data, at + 4, SHA256_DIGEST_LENGTH)
                 THEN <<[id |-> id, block |-> at]>> ELSE <<>>)
                \o ExpectedCalls(data, len, next)

\* C15: on a container that passes the size check the parser calls exactly
\* the handlers of the blocks with id 3, 4 or 6 that precede the end marker
\* and whose hash matches, in container order: a block whose hash does not
\* match is skipped and the blocks after it are still processed.  (Stated as
\* the claim; the code violates it.)
C15_HandlersOfValidBlocks ==
  [][AtInitKeysOnContainer =>
       Calls(parsed') = ExpectedCalls(self.buffer, self.buffer_length, 8)]_vars

\* The bytes of data[1..len] from offset at on are whole blocks up to an end
\* marker or up to the end.
RECURSIVE WellFormed(_, _, _)
WellFormed(data, len, at) ==
  \/ at = len
  \/ /\ at + 4 <= len
     /\ \/ Le16(data, at) = 65535
        \/ /\ at + 4 + SHA256_DIGEST_LENGTH + Le16(data, at + 2) <= len
           /\ WellFormed(data, len, at + 4 + SHA256_DIGEST_LENGTH + Le16(data, at + 2))

\* The block loop has ended.
Stopped(p) == p # <<>> /\ Last(p).fn = "stop"

\* The payload bytes the reader had consumed when the loop ended.
Consumed(p) == Last(p).block - 8

\* C16 as claimed: on a well-formed container that passes the size check the
\* parser has consumed exactly the declared payload size when it stops.  (An
\* end marker stops it earlier.)
C16_ConsumedIsDeclared ==
  [][(/\ AtInitKeysOnContainer
      /\ WellFormed(self.buffer, self.buffer_length, 8)
      /\ Stopped(parsed'))
     => Consumed(parsed') = DeclaredSize]_vars

\* C16 amended: on a container that passes the size check (the assertion
\* made before the first block is read) the parser, when it stops, has
\* consumed no more than the declared payload size, and exactly that size
\* when it stops because no byte remains; at an end marker it may have
\* consumed less.  Nothing is asserted after the loop: the machine advances
\* to HANDSHAKE whatever was consumed.
C16_ConsumedWithinDeclared ==
  [][(AtInitKeysOnContainer /\ Stopped(parsed')) =>
       /\ Consumed(parsed') >= 0
       /\ Consumed(parsed') <= DeclaredSize
       /\ Last(parsed').result = "exhausted" => Consumed(parsed') = DeclaredSize
       /\ pc' = "init_ssm"
       /\ ms'.init.cur_state = HANDSHAKE]_vars

C16_Witness ==
  /\ pc = "init_ssm" /\ ms.init.cur_state = HANDSHAKE
  /\ Stopped(parsed)
  /\ Last(parsed).result = "end marker"
  /\ HasHeader /\ AfterHeader = DeclaredSize
  /\ Consumed(parsed) < DeclaredSize

MasterKey == PRF_SHA256(PRE_KEY, LABEL, seed, SHA256_DIGEST_LENGTH)
ValidationKey == PRF_SHA256(MasterKey, LABEL_SIGN, SIGN_KEY, SHA256_DIGEST_LENGTH)

\* The plaintext of the private-key body at offset at of buf.
Plaintext(buf, at) ==
  EVP_Decrypt(MasterKey, Bytes(buf, at + 1, 16), Bytes(buf, at + 17, 112))

\* What the checks of the Encrypted Private Key Block, made in their order,
\* say about the body of size bytes at offset at of buf; lib is the result
\* recorded when a decryption call failed.
PrivateKeyVerdict(buf, at, size, lib) ==
  LET plain == Plaintext(buf, at)
      x == SubSeq(plain, 1, 32)
      y == SubSeq(plain, 33, 64)
      d == SubSeq(plain, 65, 96)
  IN  IF buf[at + 1] # 2 THEN "prefix"
      ELSE IF HMAC_SHA256(ValidationKey, Bytes(buf, at + 1, size - 33))
                # Bytes(buf, at + size - 32, 32) THEN "signature"
      ELSE IF lib \in {"EVP_DecryptInit", "EVP_DecryptUpdate", "EVP_DecryptFinal"}
        THEN lib
      ELSE IF ~EC_KEY_set_public_key_affine_coordinates(x, y) THEN "coordinates"
      ELSE IF ~EC_KEY_set_private_key(d) THEN "private key"
      ELSE IF ~EC_KEY_check_key(x, y, d) THEN "check key"
      ELSE "installed"

\* The entries of p in which handler fn was called and returned (its reads
\* stayed inside the buffer).
Returned(p, fn) == {i \in 1..Len(p) : p[i].fn = fn /\ p[i].result # "undefined"}

Max(S) == CHOOSE i \in S : \A j \in S : j <= i

\* The private key the session holds after the parse p of buf: that of the
\* last block that installed one.
PrivateKeyAfter(buf, p) ==
  LET I == {i \in Returned(p, "init_private_key") : p[i].result = "installed"}
  IN  IF I = {} THEN <<>> ELSE SubSeq(Plaintext(buf, p[Max(I)].at), 1, 96)

\* C17: a private-key block installs its key only if its prefix is 2, the
\* HMAC of its ciphertext is its trailing signature, decryption succeeds and
\* the key pair is valid, checked in this order; a block that fails a check
\* installs nothing, the loop goes on to its next test, and when the parse
\* stops the machine advances without error.
C17_PrivateKeyChecks ==
  [][AtInitKeysOnContainer =>
       /\ \A i \in Returned(parsed', "init_private_key") :
            /\ parsed'[i].result =
                 PrivateKeyVerdict(self.buffer, parsed'[i].at, parsed'[i].size,
                                   parsed'[i].result)
            /\ parsed'[i].result # "installed" => i < Len(parsed')
       /\ self'.private_key = PrivateKeyAfter(self.buffer, parsed')
       /\ Stopped(parsed') =>
            (pc' = "init_ssm" /\ ms'.init.cur_state = HANDSHAKE
             /\ ms'.init.error = NULL)]_vars

\* A block whose ciphertext was altered in one byte was refused for its
\* signature, the ECDH block after it was handled, no private key is
\* installed and open() succeeded.
C17_Witness ==
  /\ Len(parsed) = 3
  /\ parsed[1].fn = "init_private_key" /\ parsed[1].result = "signature"
  /\ parsed[2].fn = "check_ecdh"
  /\ self.private_key = <<>>
  /\ open_result = "ok"

\* The point of the ECDH body at offset at of buf: X at 0x08, Y at 0x4C.
EcdhX(buf, at) == Bytes(buf, at + 8, 32)
EcdhY(buf, at) == Bytes(buf, at + 76, 32)

\* The entries of p in which check_ecdh was given a body that holds X and Y
\* and they form an acceptable point.
AcceptablePoints(buf, p) ==
  {i \in 1..Len(p) :
     /\ p[i].fn = "check_ecdh"
     /\ p[i].size >= 108
     /\ EC_KEY_set_public_key_affine_coordinates(EcdhX(buf, p[i].at),
                                                 EcdhY(buf, p[i].at))}

\* What the verification of the signature of the ECDH body at offset at says.
EcdhVerdict(buf, at) ==
  LET length == buf[at + 145] + 256 * buf[at + 146]
      status == ECDSA_verify(SHA256(Bytes(buf, at, 144)),
                             Bytes(buf, at + 148, length),
                             DEVICE_KEY_X \o DEVICE_KEY_Y)
  IN  IF status = 1 THEN "verified"
      ELSE IF status = 0 THEN "untrusted" ELSE "verify error"

\* The ECDH key the session holds after the parse p of buf: the point of the
\* last ECDH block with an acceptable point, whatever its verification said.
EcdhKeyAfter(buf, p) ==
  LET I == AcceptablePoints(buf, p)
  IN  IF I = {} THEN <<>>
      ELSE EcdhX(buf, p[Max(I)].at) \o EcdhY(buf, p[Max(I)].at)

\* C18: an ECDH block whose X and Y form an acceptable point installs that
\* point as the ECDH public key whether its signature verifies, is rejected
\* or cannot be decoded; the key installed depends on X and Y only, so it is
\* the same with an altered signature; no verification outcome removes the
\* key, stops the loop or fails the machine.
C18_EcdhInstalledBeforeVerification ==
  [][AtInitKeysOnContainer =>
       /\ \A i \in Returned(parsed', "check_ecdh") :
            /\ parsed'[i].result =
                 IF i \in AcceptablePoints(self.buffer, parsed')
                 THEN EcdhVerdict(self.buffer, parsed'[i].at) ELSE "coordinates"
            /\ i < Len(parsed')
       /\ self'.ecdh_q = EcdhKeyAfter(self.buffer, parsed')
       /\ Stopped(parsed') =>
            (pc' = "init_ssm" /\ ms'.init.cur_state = HANDSHAKE
             /\ ms'.init.error = NULL)]_vars

\* The block with the altered signature was found untrusted, its point is
\* the ECDH key of the session, and open() succeeded.
C18_Witness ==
  /\ Len(parsed) = 3
  /\ parsed[2].fn = "check_ecdh" /\ parsed[2].result = "untrusted"
  /\ self.ecdh_q = Number(15) \o Number(232)
  /\ open_result = "ok"

Min_(S) == CHOOSE i \in S : \A j \in S : i <= j

\* The key the first installing block of the parse p of buf set.
PrivateKeyFirst(buf, p) ==
  LET I == {i \in Returned(p, "init_private_key") : p[i].result = "installed"}
  IN  IF I = {} THEN <<>> ELSE SubSeq(Plaintext(buf, p[Min_(I)].at), 1, 96)

EcdhKeyFirst(buf, p) ==
  LET I == AcceptablePoints(buf, p)
  IN  IF I = {} THEN <<>>
      ELSE EcdhX(buf, p[Min_(I)].at) \o EcdhY(buf, p[Min_(I)].at)

\* C19: between open and close a private key that was set and an ECDH key
\* that was set are never replaced or cleared: after a parse the session
\* holds the key that the first installing block set, and no later step
\* before the close changes it.  (Stated as the claim; the code violates it.)
C19_KeysSetOnce ==
  [][/\ AtInitKeysOnContainer =>
          /\ self'.private_key = PrivateKeyFirst(self.buffer, parsed')
          /\ self'.ecdh_q = EcdhKeyFirst(self.buffer, parsed')
     /\ (self.private_key # <<>> /\ dev' # "closed") =>
          self'.private_key = self.private_key
     /\ (self.ecdh_q # <<>> /\ dev' # "closed") =>
          self'.ecdh_q = self.ecdh_q]_vars

\* The step is dev_open, which allocates the buffer, or dev_close, which
\* releases it.
OpensOrCloses == opens' # opens \/ (dev = "open" /\ dev' = "closed")

BufferUnchanged ==
  self'.buffer = self.buffer /\ self'.buffer_length = self.buffer_length

\* C20: from its allocation by open() to its release by close() the response
\* buffer and its recorded length change only in the step that completes a
\* read of the command machine: the handlers of the initialization machine
\* (CHECK_INITIALIZED and the block parser with its certificate, private-key
\* and ECDH handlers among them), the write step with its completion, the
\* handshake machine and the open completion leave both as they are.
C20_BufferChangedByReadOnly ==
  [][/\ ~BufferUnchanged => (ReadCompleted \/ OpensOrCloses)
     /\ pc \in {"init_ssm", "exec_command_ssm", "handshake_ssm", "dev_open_callback"}
          => BufferUnchanged
     /\ (log' # log /\ log' # <<>> /\ Last(log').ev = "write_done")
          => BufferUnchanged]_vars

\* The parser handled a certificate, a private key and an ECDH key, the
\* handshake ran and open() succeeded, and the buffer still holds the 440
\* bytes received.
C20_Witness ==
  /\ open_result = "ok"
  /\ Len(parsed) = 4
  /\ self.private_key # <<>> /\ self.ecdh_q # <<>> /\ self.certificate = Certificate
  /\ self.buffer_length = 440
  /\ SubSeq(self.buffer, 1, 440) \in FlashContainers

\* C12: when INIT_KEYS runs (every exchange before it succeeded and the
\* provisioning check passed) on a container that passes the size check, the
\* machine advances to HANDSHAKE without error whatever the blocks hold, and
\* an open() that got that far reports success.  (Stated as the claim; the
\* code violates it.)
C12_OpenSucceedsWhateverTheBlocks ==
  [][/\ AtInitKeysOnContainer =>
          /\ pc' = "init_ssm"
          /\ ms'.init.cur_state = HANDSHAKE
          /\ ms'.init.error = NULL
     /\ (parsed # <<>> /\ completions' > completions) => open_result' = "ok"]_vars

\* The reference expansion: A(0) = lseed, A(i) = HMAC(secret, A(i-1)).
RECURSIVE PrfA(_, _, _)
PrfA(secret, lseed, i) ==
  IF i = 0 THEN lseed ELSE HMAC_SHA256(secret, PrfA(secret, lseed, i - 1))

\* HMAC(secret, A(1) || lseed) || ... || HMAC(secret, A(n) || lseed).
RECURSIVE PrfStream(_, _, _)
PrfStream(secret, lseed, n) ==
  IF n = 0 THEN <<>>
  ELSE PrfStream(secret, lseed, n - 1)
         \o HMAC_SHA256(secret, PrfA(secret, lseed, n) \o lseed)

PrfReturned == prf.returned

\* C21: for every secret, label, seed and requested length, including 0 and
\* lengths that are not a multiple of 32, PRF_SHA256 writes exactly the
\* requested number of bytes, and they are the first bytes of the stream
\* HMAC(secret, A(1) || label || seed) || HMAC(secret, A(2) || label || seed)
\* || ... with A(0) = label || seed and A(i) = HMAC(secret, A(i-1)).
C21_PrfIsTruncatedStream ==
  PrfReturned =>
    /\ Len(prf.out) = prf.len
    /\ prf.out = SubSeq(PrfStream(prf.secret, prf.label \o prf.seed,
                                  (prf.len + SHA256_DIGEST_LENGTH - 1)
                                    \div SHA256_DIGEST_LENGTH),
                        1, prf.len)

\* A call returned two whole digests and part of a third.
C21_Witness ==
  /\ PrfReturned
  /\ prf.len > 2 * SHA256_DIGEST_LENGTH
  /\ prf.len % SHA256_DIGEST_LENGTH # 0
  /\ prf.label # <<>> /\ prf.seed # <<>> /\ prf.secret # <<>>
  /\ Len(prf.out) = prf.len

\* C22: when INIT_KEYS runs on a container that passes the size check, the
\* block loop terminates: the handler returns, and the loop has stopped at
\* the first block header with identifier 0xFFFF or because no byte remains,
\* also when the bytes left are fewer than a block header, a hash or the
\* declared body.  (Stated as the claim; the code violates it.)
C22_BlockLoopTerminates ==
  [][AtInitKeysOnContainer =>
       /\ pc' # "init_keys"
       /\ Stopped(parsed')
       /\ Last(parsed').result \in {"end marker", "exhausted"}]_vars

SeedError == "Seed value is not initialized"

\* The step ends an open session (close() is the only one that does), is a
\* call of open(), or reports an open() as successful.
IsClose == dev = "open" /\ dev' # "open"
IsOpen == opens' = opens + 1
OpenSucceeds == completions' > completions /\ open_result' = "ok"

\* C23: close() releases the seed together with the buffer, the certificate,
\* the private key and the ECDH key; the seed is never set again, so every
\* open() called after a close() completes at once with "Seed value is not
\* initialized", submits no transfer and does not start the initialization
\* machine, and the device is never open again.  An open() succeeds only
\* while the seed is there and no session is open, and the session it opens
\* ends only by a close(): a session is opened successfully at most once per
\* device object.
C23_NoOpenAfterClose ==
  [][/\ IsClose =>
          /\ dev' = "closed"
          /\ self'.seed = NULL /\ self'.buffer = <<>>
          /\ NoKeys(self')
     /\ self.seed = NULL =>
          /\ self'.seed = NULL
          /\ dev' = "closed"
          /\ ~OpenSucceeds
     /\ (IsOpen /\ self.seed = NULL) =>
          /\ open_result' = SeedError
          /\ completions' = 1
          /\ pc' = "idle"
          /\ transfers' = <<>> /\ log' = <<>>
          /\ ms' = ms /\ visited' = <<>>
          /\ self' = self
     /\ OpenSucceeds =>
          /\ self.seed # NULL
          /\ dev = "opening" /\ dev' = "open"]_vars

\* An open() called after a successful open() and a close() has failed for
\* lack of the seed, without a transfer.
C23_Witness ==
  /\ opens = 2
  /\ open_result = SeedError
  /\ completions = 1
  /\ dev = "closed" /\ pc = "idle"
  /\ self.seed = NULL /\ self.buffer = <<>> /\ NoKeys(self)
  /\ log = <<>> /\ transfers = <<>>
  /\ ms.init.completed

====
